---- MODULE Spec2Model ----
(***************************************************************************)
(* Model of livox_launch.py: one run of main(), from load_config to the    *)
(* launch of livox_logger.                                                 *)
(*                                                                         *)
(* A datetime is an integer number of seconds since midnight of day 0 of   *)
(* the model calendar; its fields (day, hour, minute, second) are derived  *)
(* from it.  Tide timestamps have minute resolution, the wall clock has    *)
(* second resolution, which is enough to place the clock on or strictly    *)
(* between two tide timestamps.                                            *)
(*                                                                         *)
(* A Python value that may be None (or a local that may be unbound) is a   *)
(* sequence of length 0 (None) or 1 (Some(v)).                             *)
(***************************************************************************)
EXTENDS Integers, Sequences, FiniteSets, TLC

----------------------------------------------------------------------------
(* Bounds of the model *)

\* longest prediction list returned by the tide API
MaxPreds == 2
\* most seconds the wall clock advances between two successive reads
MaxDrift == 1
\* last calendar day of the timestamps given to round_to_nearest_hour
MaxDay == 1

----------------------------------------------------------------------------
(* Optional values *)

None == <<>>
Some(v) == <<v>>
Val(o) == o[1]

----------------------------------------------------------------------------
(* Module constants *)

NEAREST_COOPS == "9410230"
DEFAULT_SAMP_TIME == 300
HIGH_TIDE_SAMP_TIME == 25 * 60
LIVOX_LOGGER == "/home/cpg/Dev/livox_logger/bin/livox_logger"

----------------------------------------------------------------------------
(* datetime and timedelta *)

MkDateTime(day, hour, minute, second) ==
    day * 86400 + hour * 3600 + minute * 60 + second
DayOf(dt) == dt \div 86400
HourOf(dt) == (dt \div 3600) % 24
MinuteOf(dt) == (dt \div 60) % 60
SecondOf(dt) == dt % 60
Hours(n) == n * 3600
Days(n) == n * 86400

\* datetime.strptime(s, "%Y-%m-%d %H:%M"): the string names a day, an hour
\* and a minute; the parsed datetime has second 0.
parse_datetime(s) == MkDateTime(s.day, s.hour, s.minute, 0)

\* (now - 1 day).strftime('%Y%m%d'): the calendar day before the clock's day.
BeginDate(now) == DayOf(now - Days(1))

round_to_nearest_hour_strict(dt) ==
    LET d2 == IF MinuteOf(dt) > 30 THEN dt + Hours(1) ELSE dt
    IN  MkDateTime(DayOf(d2), HourOf(d2), 0, 0)

round_to_nearest_hour(dt) ==
    LET d2 == IF MinuteOf(dt) >= 30 THEN dt + Hours(1) ELSE dt
    IN  MkDateTime(DayOf(d2), HourOf(d2), 0, 0)

----------------------------------------------------------------------------
(* Tide analyzer *)

\* One iteration of the loop of find_closest_high_tides: acc is the pair
\* <<closest_past_high_tide, closest_future_high_tide>> so far.
TideStep_strict_past(acc, prediction, now) ==
    LET pred_datetime == parse_datetime(prediction.t)
    IN  IF prediction.type = "H"
        THEN IF pred_datetime < now
             THEN IF acc[1] = None \/ pred_datetime > Val(acc[1])
                  THEN <<Some(pred_datetime), acc[2]>>
                  ELSE acc
             ELSE IF acc[2] = None \/ pred_datetime < Val(acc[2])
                  THEN <<acc[1], Some(pred_datetime)>>
                  ELSE acc
        ELSE acc

TideStep(acc, prediction, now) ==
    LET pred_datetime == parse_datetime(prediction.t)
    IN  IF prediction.type = "H"
        THEN IF pred_datetime <= now
             THEN IF acc[1] = None \/ pred_datetime > Val(acc[1])
                  THEN <<Some(pred_datetime), acc[2]>>
                  ELSE acc
             ELSE IF acc[2] = None \/ pred_datetime < Val(acc[2])
                  THEN <<acc[1], Some(pred_datetime)>>
                  ELSE acc
        ELSE acc

RECURSIVE ScanTides(_, _, _, _)
ScanTides(predictions, i, now, acc) ==
    IF i > Len(predictions)
    THEN acc
    ELSE ScanTides(predictions, i + 1, now, TideStep(acc, predictions[i], now))

find_closest_high_tides(predictions, now) ==
    ScanTides(predictions, 1, now, <<None, None>>)

\* main, lines 107-117: the single closest high tide.
ClosestHighTide_future_on_tie(past, future, now) ==
    IF past # None /\ future # None
    THEN IF (now - Val(past)) < (Val(future) - now) THEN past ELSE future
    ELSE IF past # None THEN past
    ELSE IF future # None THEN future
    ELSE None

ClosestHighTide(past, future, now) ==
    IF past # None /\ future # None
    THEN IF (now - Val(past)) <= (Val(future) - now) THEN past ELSE future
    ELSE IF past # None THEN past
    ELSE IF future # None THEN future
    ELSE None

----------------------------------------------------------------------------
(* Sampling-interval selector *)

\* main, line 121
InWindow_open(rounded_high_tide, now) ==
    /\ rounded_high_tide - Hours(2) < now
    /\ now < rounded_high_tide + Hours(3)

InWindow(rounded_high_tide, now) ==
    /\ rounded_high_tide - Hours(2) <= now
    /\ now <= rounded_high_tide + Hours(3)

\* main, lines 119-126: which branch assigns samp_time
Mode(closest_high_tide, now) ==
    IF closest_high_tide # None
    THEN IF InWindow(round_to_nearest_hour(Val(closest_high_tide)), now)
         THEN "high_tide"
         ELSE "default"
    ELSE "default"

\* main, lines 122, 124, 126 and 99: the value assigned to samp_time
SampTime_always_default(mode, default_samp_time) == default_samp_time

SampTime(mode, default_samp_time) ==
    IF mode = "high_tide" THEN HIGH_TIDE_SAMP_TIME ELSE default_samp_time

\* main, line 134: the :30 guard
SkipLaunch_any_mode(current_minute, samp_time) == current_minute = 30

SkipLaunch(current_minute, samp_time) ==
    current_minute = 30 /\ samp_time # 25 * 60

----------------------------------------------------------------------------
(* Launcher *)

\* main, line 139
ConfigFile_default(samp_time) ==
    "conf/config-" \o ToString(DEFAULT_SAMP_TIME) \o ".yaml"

ConfigFile(samp_time) == "conf/config-" \o ToString(samp_time) \o ".yaml"

\* main, line 141: the argument vector of the child process
Argv(config_file) == <<LIVOX_LOGGER, config_file>>

----------------------------------------------------------------------------
(* Config loader *)

\* config.yaml as found on disk: missing, not parseable as YAML, or a
\* mapping that may hold the keys fqdn_ip and sampling.time.
ConfigFiles ==
    { [state |-> "missing", fqdn_ip |-> None, sampling_time |-> None],
      [state |-> "malformed", fqdn_ip |-> None, sampling_time |-> None] }
    \cup
    [ state : {"mapping"},
      fqdn_ip : {None, Some("192.168.1.50")},
      sampling_time : {None, Some(600), Some(1500)} ]

load_config_keep_malformed(file) ==
    IF file.state = "missing"
    THEN None
    ELSE Some([fqdn_ip |-> file.fqdn_ip, sampling_time |-> file.sampling_time])

load_config(file) ==
    IF file.state = "missing"
    THEN None
    ELSE IF file.state = "malformed"
    THEN None
    ELSE Some([fqdn_ip |-> file.fqdn_ip, sampling_time |-> file.sampling_time])

\* main, lines 89 and 92
DefaultSampTime(config) ==
    IF config # None
    THEN IF Val(config).sampling_time # None
         THEN Val(Val(config).sampling_time)
         ELSE DEFAULT_SAMP_TIME
    ELSE DEFAULT_SAMP_TIME

\* main, lines 86-93: coops is bound only when no configuration was loaded
Coops_from_config(config) ==
    IF config # None THEN Val(config).fqdn_ip ELSE Some(NEAREST_COOPS)

Coops(config) ==
    IF config # None THEN None ELSE Some(NEAREST_COOPS)

----------------------------------------------------------------------------
(* Tide client *)

TideStamps ==
    { [day |-> 0, hour |-> 11, minute |-> 30],
      [day |-> 0, hour |-> 12, minute |-> 0],
      [day |-> 0, hour |-> 14, minute |-> 0],
      [day |-> 0, hour |-> 14, minute |-> 29],
      [day |-> 0, hour |-> 14, minute |-> 30] }

PredictionRecords == [t : TideStamps, type : {"H", "L"}]

PredictionLists == UNION { [1..n -> PredictionRecords] : n \in 0..MaxPreds }

\* What the GET of line 48 meets: no response, a response with an error
\* status, or a 2xx response whose body is not JSON, is JSON but not an
\* object, or is a JSON object with or without the key 'predictions'.
Responses ==
    [ kind : {"transport_error", "bad_status", "not_json", "json_non_object"},
      predictions : {None} ]
    \cup
    [ kind : {"json_object"},
      predictions : {None} \cup { Some(l) : l \in PredictionLists } ]

\* The result of the call: the exception that leaves it, or its value.
get_tide_predictions(response) ==
    IF response.kind \in {"transport_error", "bad_status", "not_json"}
    THEN [error |-> None, value |-> None]
    ELSE IF response.kind = "json_non_object"
    THEN [error |-> Some("AttributeError"), value |-> None]
    ELSE IF response.predictions = None
    THEN [error |-> None, value |-> Some(<<>>)]
    ELSE [error |-> None, value |-> response.predictions]

----------------------------------------------------------------------------
(* One run of main *)

\* the wall clock when the run starts
ClockValues ==
    { MkDateTime(0, 10, 59, 0),
      MkDateTime(0, 12, 30, 0),
      MkDateTime(0, 12, 59, 59),
      MkDateTime(0, 13, 0, 0),
      MkDateTime(0, 13, 5, 0),
      MkDateTime(0, 13, 29, 59),
      MkDateTime(0, 13, 30, 0),
      MkDateTime(0, 14, 0, 0),
      MkDateTime(0, 14, 30, 0),
      MkDateTime(0, 17, 59, 59),
      MkDateTime(0, 18, 0, 0) }

ChildOutcomes == {"ok", "CalledProcessError", "FileNotFoundError"}

VARIABLES
    pc,                         \* position in main, "done" or "crashed"
    error,                      \* the exception that ended the run, if any
    clock,                      \* the wall clock at its latest read
    config_yaml,                \* the configuration file met by load_config
    config, now_str, fqdn_ip, default_samp_time, coops,
    response,                   \* the HTTP response met by the tide client
    predictions,
    scan_now,                   \* now of find_closest_high_tides (line 18)
    closest_past_high_tide, closest_future_high_tide,
    now,                        \* now of main (line 106)
    closest_high_tide, rounded_high_tide,
    mode,                       \* the branch of lines 97-126 that was taken
    samp_time, current_minute,
    fetches,                    \* the tide requests sent, in order
    launches,                   \* the child processes run, in order
    child                       \* how the child process ended

vars == << pc, error, clock, config_yaml, config, now_str, fqdn_ip,
           default_samp_time, coops, response, predictions, scan_now,
           closest_past_high_tide, closest_future_high_tide, now,
           closest_high_tide, rounded_high_tide, mode, samp_time,
           current_minute, fetches, launches, child >>

configVars == << config_yaml, config, now_str, fqdn_ip, default_samp_time, coops >>
fetchVars == << response, predictions, fetches >>
scanVars == << scan_now, closest_past_high_tide, closest_future_high_tide >>
selectVars == << now, closest_high_tide, rounded_high_tide, mode, samp_time >>
launchVars == << current_minute, launches, child >>

Init ==
    /\ pc = "load_config"
    /\ error = None
    /\ clock \in ClockValues
    /\ config_yaml = None
    /\ config = None
    /\ now_str = None
    /\ fqdn_ip = None
    /\ default_samp_time = None
    /\ coops = None
    /\ response = None
    /\ predictions = None
    /\ scan_now = None
    /\ closest_past_high_tide = None
    /\ closest_future_high_tide = None
    /\ now = None
    /\ closest_high_tide = None
    /\ rounded_high_tide = None
    /\ mode = "unset"
    /\ samp_time = None
    /\ current_minute = None
    /\ fetches = <<>>
    /\ launches = <<>>
    /\ child = None

\* an uncaught exception leaves main
Raise(exception) ==
    /\ pc' = "crashed"
    /\ error' = Some(exception)

\* lines 83-84
LoadConfig ==
    /\ pc = "load_config"
    /\ \E file \in ConfigFiles :
          /\ config_yaml' = Some(file)
          /\ config' = load_config(file)
    /\ now_str' = Some(BeginDate(clock))
    /\ pc' = "use_config"
    /\ UNCHANGED << error, clock, fqdn_ip, default_samp_time, coops >>
    /\ UNCHANGED << fetchVars, scanVars, selectVars, launchVars >>

\* lines 86-93
UseConfig ==
    /\ pc = "use_config"
    /\ IF config # None /\ Val(config).fqdn_ip = None
       THEN /\ Raise("KeyError")
            /\ UNCHANGED << fqdn_ip, default_samp_time, coops >>
       ELSE /\ fqdn_ip' = IF config # None THEN Val(config).fqdn_ip ELSE None
            /\ default_samp_time' = Some(DefaultSampTime(config))
            /\ coops' = Coops(config)
            /\ pc' = "fetch"
            /\ UNCHANGED error
    /\ UNCHANGED << clock, config_yaml, config, now_str >>
    /\ UNCHANGED << fetchVars, scanVars, selectVars, launchVars >>

\* line 95
Fetch ==
    /\ pc = "fetch"
    /\ IF coops = None
       THEN /\ Raise("UnboundLocalError")
            /\ UNCHANGED fetchVars
       ELSE \E r \in Responses :
               LET result == get_tide_predictions(r)
               IN  /\ fetches' = Append(fetches, [station |-> Val(coops),
                                                  begin_date |-> Val(now_str)])
                   /\ response' = Some(r)
                   /\ IF result.error # None
                      THEN /\ Raise(Val(result.error))
                           /\ UNCHANGED predictions
                      ELSE /\ predictions' = result.value
                           /\ pc' = "analyze"
                           /\ UNCHANGED error
    /\ UNCHANGED << clock, configVars, scanVars, selectVars, launchVars >>

\* lines 97-99
NoTideData ==
    /\ pc = "analyze"
    /\ predictions = None
    /\ mode' = "default"
    /\ samp_time' = Some(SampTime("default", Val(default_samp_time)))
    /\ pc' = "guard"
    /\ UNCHANGED << error, clock, now, closest_high_tide, rounded_high_tide >>
    /\ UNCHANGED << configVars, fetchVars, scanVars, launchVars >>

\* line 101
FindTides ==
    /\ pc = "analyze"
    /\ predictions # None
    /\ \E d \in 0..MaxDrift :
          LET t == clock + d
              found == find_closest_high_tides(Val(predictions), t)
          IN  /\ clock' = t
              /\ scan_now' = Some(t)
              /\ closest_past_high_tide' = found[1]
              /\ closest_future_high_tide' = found[2]
    /\ pc' = "select"
    /\ UNCHANGED << error, configVars, fetchVars, selectVars, launchVars >>

\* lines 106-126
Select ==
    /\ pc = "select"
    /\ \E d \in 0..MaxDrift :
          LET t == clock + d
              closest == ClosestHighTide(closest_past_high_tide,
                                         closest_future_high_tide, t)
              m == Mode(closest, t)
          IN  /\ clock' = t
              /\ now' = Some(t)
              /\ closest_high_tide' = closest
              /\ rounded_high_tide' =
                     IF closest # None
                     THEN Some(round_to_nearest_hour(Val(closest)))
                     ELSE None
              /\ mode' = m
              /\ samp_time' = Some(SampTime(m, Val(default_samp_time)))
    /\ pc' = "guard"
    /\ UNCHANGED << error, configVars, fetchVars, scanVars, launchVars >>

\* lines 131-136
Guard ==
    /\ pc = "guard"
    /\ \E d \in 0..MaxDrift :
          LET t == clock + d
          IN  /\ clock' = t
              /\ current_minute' = Some(MinuteOf(t))
              /\ pc' = IF SkipLaunch(MinuteOf(t), Val(samp_time))
                       THEN "done"
                       ELSE "launch"
    /\ UNCHANGED << error, launches, child >>
    /\ UNCHANGED << configVars, fetchVars, scanVars, selectVars >>

\* lines 139-145
Launch ==
    /\ pc = "launch"
    /\ \E outcome \in ChildOutcomes :
          /\ launches' = Append(launches, Argv(ConfigFile(Val(samp_time))))
          /\ child' = Some(outcome)
    /\ pc' = "done"
    /\ UNCHANGED << error, clock, current_minute >>
    /\ UNCHANGED << configVars, fetchVars, scanVars, selectVars >>

Next ==
    \/ LoadConfig
    \/ UseConfig
    \/ Fetch
    \/ NoTideData
    \/ FindTides
    \/ Select
    \/ Guard
    \/ Launch

Spec == Init /\ [][Next]_vars

----------------------------------------------------------------------------
(* round_to_nearest_hour on its own: line 120 applied to every timestamp   *)
(* of days 0..MaxDay.                                                      *)

DateTimes ==
    { MkDateTime(d, h, m, s) : d \in 0..MaxDay, h \in 0..23, m \in 0..59,
                               s \in {0, 1, 59} }

InitRound ==
    /\ pc = "round"
    /\ error = None
    /\ clock = 0
    /\ config_yaml = None
    /\ config = None
    /\ now_str = None
    /\ fqdn_ip = None
    /\ default_samp_time = None
    /\ coops = None
    /\ response = None
    /\ predictions = None
    /\ scan_now = None
    /\ closest_past_high_tide = None
    /\ closest_future_high_tide = None
    /\ now = None
    /\ closest_high_tide \in { Some(dt) : dt \in DateTimes }
    /\ rounded_high_tide = None
    /\ mode = "unset"
    /\ samp_time = None
    /\ current_minute = None
    /\ fetches = <<>>
    /\ launches = <<>>
    /\ child = None

\* line 120
RoundHighTide ==
    /\ pc = "round"
    /\ rounded_high_tide' = Some(round_to_nearest_hour(Val(closest_high_tide)))
    /\ pc' = "rounded"
    /\ UNCHANGED << error, clock, now, closest_high_tide, mode, samp_time >>
    /\ UNCHANGED << configVars, fetchVars, scanVars, launchVars >>

NextRound == RoundHighTide

SpecRound == InitRound /\ [][NextRound]_vars

----------------------------------------------------------------------------
(* Properties *)

Abs(x) == IF x < 0 THEN -x ELSE x
MaxOf(S) == CHOOSE x \in S : \A y \in S : y <= x
MinOf(S) == CHOOSE x \in S : \A y \in S : x <= y

\* C1: when the minute read by the guard is 30 and the mode is not high-tide,
\* the run ends without running the child process; when the mode is
\* high-tide the child process is run even though the minute is 30.
C1_MinuteThirtyGuard ==
    /\ (current_minute = Some(30) /\ mode # "high_tide")
          => (pc = "done" /\ launches = <<>>)
    /\ (current_minute = Some(30) /\ mode = "high_tide" /\ pc = "done")
          => Len(launches) = 1

C1_Witness ==
    /\ pc = "done"
    /\ current_minute = Some(30)
    /\ mode = "high_tide"
    /\ launches = << <<LIVOX_LOGGER, "conf/config-1500.yaml">> >>

\* C2: whatever the configuration file, the tide response and the child
\* process do, main never ends in an uncaught exception.
C2_NoErrorEscalated == pc # "crashed"

\* C3: when config.yaml is missing or unparseable, load_config returns None,
\* main takes 300 seconds and station 9410230 as defaults, and the tide
\* fetch is made with that station.
C3_AbsentConfigDefaults ==
    (config_yaml # None /\ Val(config_yaml).state \in {"missing", "malformed"})
    => /\ config = None
       /\ pc \notin {"use_config"}
             => /\ default_samp_time = Some(300)
                /\ coops = Some("9410230")
                /\ error # Some("UnboundLocalError")
       /\ pc \notin {"use_config", "fetch"}
             => /\ Len(fetches) = 1
                /\ fetches[1].station = "9410230"

C3_Witness ==
    /\ config_yaml # None
    /\ Val(config_yaml).state = "malformed"
    /\ pc = "done"
    /\ Len(fetches) = 1
    /\ fetches[1].station = "9410230"
    /\ default_samp_time = Some(300)

\* C4: on a transport error, an error status or a malformed body the tide
\* client returns None without raising, and the run then takes the default
\* sampling time, never 1500.
C4_TideFailureFallsBack ==
    (response # None
       /\ Val(response).kind \in {"transport_error", "bad_status",
                                  "not_json", "json_non_object"})
    => /\ pc # "crashed"
       /\ predictions = None
       /\ samp_time # None => (samp_time = default_samp_time
                                /\ samp_time # Some(1500))

\* C5: once the interval is decided, it is 1500 exactly when a closest high
\* tide was identified and now lies in [rounded - 2h, rounded + 3h], bounds
\* included, rounded being that tide rounded to the nearest hour; otherwise
\* it is the default sampling time.
C5_HighTideWindow ==
    mode # "unset"
    => LET inWindow ==
               /\ closest_high_tide # None
               /\ now # None
               /\ LET rounded == ((Val(closest_high_tide) + 1800) \div 3600) * 3600
                  IN  /\ rounded - 7200 <= Val(now)
                      /\ Val(now) <= rounded + 10800
       IN  /\ inWindow => samp_time = Some(1500)
           /\ ~inWindow => (samp_time = default_samp_time /\ mode = "default")
           /\ (mode = "high_tide") <=> inWindow

C5_Witness ==
    /\ rounded_high_tide = Some(MkDateTime(0, 15, 0, 0))
    /\ now = Some(MkDateTime(0, 13, 0, 0))
    /\ samp_time = Some(1500)

\* C6: find_closest_high_tides returns the latest high tide at or before now
\* and the earliest high tide after now, None where there is none; low
\* tides never count, and a high tide exactly at now is the past one.
C6_ClosestPastFuture ==
    scan_now # None
    => LET list == Val(predictions)
           highs == { MkDateTime(list[i].t.day, list[i].t.hour,
                                 list[i].t.minute, 0) :
                         i \in { j \in 1..Len(list) : list[j].type = "H" } }
           past == { t \in highs : t <= Val(scan_now) }
           future == { t \in highs : t > Val(scan_now) }
       IN  /\ closest_past_high_tide =
                  IF past = {} THEN None ELSE Some(MaxOf(past))
           /\ closest_future_high_tide =
                  IF future = {} THEN None ELSE Some(MinOf(future))

C6_Witness ==
    /\ scan_now # None
    /\ closest_past_high_tide = scan_now
    /\ closest_future_high_tide = None
    /\ \E i \in 1..Len(Val(predictions)) : Val(predictions)[i].type = "L"

\* C7: with a past and a future candidate the one nearer to now is chosen,
\* the past one on a tie; a lone candidate is chosen; with no candidate no
\* high tide is identified.
C7_ClosestSelection ==
    now # None
    => LET P == closest_past_high_tide
           F == closest_future_high_tide
           n == Val(now)
       IN  /\ (P # None /\ F # None /\ Abs(n - Val(P)) < Abs(Val(F) - n))
                 => closest_high_tide = P
           /\ (P # None /\ F # None /\ Abs(n - Val(P)) > Abs(Val(F) - n))
                 => closest_high_tide = F
           /\ (P # None /\ F # None /\ Abs(n - Val(P)) = Abs(Val(F) - n))
                 => closest_high_tide = P
           /\ (P # None /\ F = None) => closest_high_tide = P
           /\ (P = None /\ F # None) => closest_high_tide = F
           /\ (P = None /\ F = None) => closest_high_tide = None

C7_Witness ==
    /\ now # None
    /\ closest_past_high_tide = Some(Val(now) - 90 * 60)
    /\ closest_future_high_tide = Some(Val(now) + 60 * 60)
    /\ closest_high_tide = closest_future_high_tide

\* C8: round_to_nearest_hour keeps the hour when the minute is below 30 and
\* moves to the next hour (the next day after hour 23) when it is 30 or
\* more; the result has minute and second zero.
C8_RoundHalfUp ==
    pc = "rounded"
    => LET dt == Val(closest_high_tide)
           r == Val(rounded_high_tide)
       IN  /\ MinuteOf(r) = 0
           /\ SecondOf(r) = 0
           /\ MinuteOf(dt) < 30
                 => (DayOf(r) = DayOf(dt) /\ HourOf(r) = HourOf(dt))
           /\ (MinuteOf(dt) >= 30 /\ HourOf(dt) < 23)
                 => (DayOf(r) = DayOf(dt) /\ HourOf(r) = HourOf(dt) + 1)
           /\ (MinuteOf(dt) >= 30 /\ HourOf(dt) = 23)
                 => (DayOf(r) = DayOf(dt) + 1 /\ HourOf(r) = 0)
           /\ dt = MkDateTime(0, 14, 29, 0) => r = MkDateTime(0, 14, 0, 0)
           /\ dt = MkDateTime(0, 14, 30, 0) => r = MkDateTime(0, 15, 0, 0)

C8_Witness ==
    /\ pc = "rounded"
    /\ closest_high_tide = Some(MkDateTime(0, 23, 30, 0))
    /\ rounded_high_tide = Some(MkDateTime(1, 0, 0, 0))

\* C9: a run makes at most one tide fetch and runs at most one child
\* process; the child runs only after the fetch and the interval decision,
\* with the single argument conf/config-N.yaml, N being the decided
\* sampling time: 1500 or the default sampling time.
C9_SingleFetchSingleLaunch ==
    /\ Len(fetches) <= 1
    /\ Len(launches) <= 1
    /\ launches # <<>>
          => /\ Len(fetches) = 1
             /\ response # None
             /\ mode # "unset"
             /\ samp_time # None
             /\ samp_time \in {Some(1500), default_samp_time}
             /\ Len(launches[1]) = 2
             /\ launches[1][2] =
                   IF mode = "high_tide"
                   THEN "conf/config-1500.yaml"
                   ELSE "conf/config-" \o ToString(Val(default_samp_time))
                                        \o ".yaml"

C9_Witness ==
    /\ pc = "done"
    /\ mode = "high_tide"
    /\ Len(fetches) = 1
    /\ launches = << <<LIVOX_LOGGER, "conf/config-1500.yaml">> >>
    /\ child = Some("CalledProcessError")

\* C10: every tide fetch uses station 9410230, every child process is given
\* conf/config-300.yaml or conf/config-1500.yaml, and a run whose
\* load_config returned a configuration makes no fetch and no launch.
C10_ConfigNeverReachesOutside ==
    /\ \A i \in 1..Len(fetches) : fetches[i].station = "9410230"
    /\ \A i \in 1..Len(launches) :
          launches[i][2] \in {"conf/config-300.yaml", "conf/config-1500.yaml"}
    /\ config # None
          => /\ fetches = <<>>
             /\ launches = <<>>
             /\ pc \in {"use_config", "fetch", "crashed"}

C10_Witness ==
    /\ config = Some([fqdn_ip |-> Some("192.168.1.50"),
                      sampling_time |-> Some(600)])
    /\ default_samp_time = Some(600)
    /\ pc = "crashed"
    /\ error = Some("UnboundLocalError")
    /\ fetches = <<>>

====
